---- MODULE Spec2Model ----
(***************************************************************************)
(* safemap: a sharded concurrent map (pkg/concurrentmap), the CounterMap   *)
(* built on its Compute primitive, and the TTL-aware key-value server      *)
(* (cmd/kv-server) built on its Get/Set/Delete/Range.                      *)
(*                                                                         *)
(* Goroutines are the processes 1..NumProcs.  Every map method is split at *)
(* its lock operations and at its accesses to the bucket's map, so that    *)
(* the interleavings the Go scheduler allows are the interleavings of the  *)
(* model.  Strings are sequences of bytes and a uint64 is a sequence of    *)
(* eight bytes, least significant first.                                   *)
(***************************************************************************)
EXTENDS Integers, Sequences, FiniteSets, TLC

\* ------------------------------------------------------------------ bounds
NumProcs == 2
NumBuckets == 2
NumKeys == 3
MaxVal == 2
MaxOps == 3
MaxTTL == 1
MaxStrLen == 2
MaxTime == 2

\* The keys goroutines use: "a", "c", "b", "k1" (as bytes); with two buckets
\* "a" and "c" share bucket 0 and "b" lies in bucket 1.
AllKeys == << <<97>>, <<99>>, <<98>>, <<107, 49>> >>
Keys == {AllKeys[i] : i \in 1..NumKeys}
Procs == 1..NumProcs
\* the goroutine of the expiry worker
Sweeper == NumProcs + 1
AllProcs == Procs \cup {Sweeper}
Vals == 1..MaxVal
NoProc == 0
NoKey == <<>>

\* ------------------------------------------------------ 64-bit arithmetic
Bit(x, i) == (x \div (2 ^ i)) % 2
\* x ^ y on bytes
XorByte(x, y) ==
    LET b(i) == (Bit(x, i) + Bit(y, i)) % 2
    IN  b(0) + 2 * b(1) + 4 * b(2) + 8 * b(3) + 16 * b(4) + 32 * b(5)
          + 64 * b(6) + 128 * b(7)

\* column c (1..8) of the schoolbook product of two uint64, without carries
MulColumn(a, b, c) ==
    LET RECURSIVE sum(_)
        sum(j) == IF j > c THEN 0 ELSE a[j] * b[c + 1 - j] + sum(j + 1)
    IN  sum(1)

\* a * b modulo 2^64
Mul64(a, b) ==
    LET RECURSIVE go(_, _)
        go(c, carry) ==
            IF c > 8 THEN <<>>
            ELSE LET t == MulColumn(a, b, c) + carry
                 IN  <<t % 256>> \o go(c + 1, t \div 256)
    IN  go(1, 0)

\* h % n for a uint64 h and 0 < n
Mod64(h, n) ==
    LET RECURSIVE go(_, _)
        go(i, r) == IF i = 0 THEN r ELSE go(i - 1, (r * 256 + h[i]) % n)
    IN  go(8, 0)

\* a + b modulo 2^64; on int64 (two's complement) this is Go's wrapping +
Add64(a, b) ==
    LET RECURSIVE go(_, _)
        go(i, carry) ==
            IF i > 8 THEN <<>>
            ELSE LET t == a[i] + b[i] + carry
                 IN  <<t % 256>> \o go(i + 1, t \div 256)
    IN  go(1, 0)

\* the int64 n, for an n of small magnitude
Int64(n) ==
    LET m == IF n >= 0 THEN n ELSE (0 - n) - 1
        byte(i) == (m \div (256 ^ (i - 1))) % 256
    IN  [i \in 1..8 |-> IF i > 3 THEN (IF n >= 0 THEN 0 ELSE 255)
                        ELSE IF n >= 0 THEN byte(i) ELSE 255 - byte(i)]

\* -x modulo 2^64
Neg64(x) == Add64([i \in 1..8 |-> 255 - x[i]], Int64(1))

\* x > 0 for an int64 x
Positive64(x) == x[8] < 128 /\ x # Int64(0)

\* math.MaxInt64 and math.MinInt64
MaxInt64 == <<255, 255, 255, 255, 255, 255, 255, 127>>
MinInt64 == <<0, 0, 0, 0, 0, 0, 0, 128>>

\* ------------------------------------------------------------------ hasher
offset64 == <<131, 3, 157, 115, 176, 15, 101, 20>>  \* 1469598103934665603
prime64 == <<179, 1, 0, 0, 0, 1, 0, 0>>             \* 1099511628211

fnv64a(s) ==
    LET RECURSIVE loop(_, _)
        loop(i, hash) ==
            IF i > Len(s) THEN hash
            ELSE loop(i + 1,
                      Mul64([hash EXCEPT ![1] = XorByte(hash[1], s[i])], prime64))
    IN  loop(1, offset64)

\* The strings fnv64a is called with on its own: the keys in use and every
\* string of at most MaxStrLen bytes drawn from HashBytes.
HashBytes == {0, 97, 255}
Strings == Keys \cup UNION {[1..n -> HashBytes] : n \in 0..MaxStrLen}

\* hasher(k) % n for the keys in use and every number n of buckets a map
\* is constructed with, computed once
Route == [n \in 1..NumBuckets |-> [k \in Keys |-> Mod64(fnv64a(k), n)]]

\* ------------------------------------------------------------------- state
VARIABLES
    vtype,     \* the type argument V the map was constructed with
    buckets,   \* buckets[i]: the Go map of shard i, a function on its keys
    mu,        \* mu[i]: the RWMutex of shard i: its writer and its readers
    pc,        \* pc[p]: where goroutine p stands in its map method
    call,      \* call[p]: arguments and locals of the method p is running
    ret,       \* ret[p]: what p's last method returned
    last,      \* last[k]: the last mutation that took effect on key k
    version,   \* the number of mutations that have taken effect
    added,     \* added[k]: the int64 sum of the deltas of the Incs that took effect on k
    nops,      \* the number of top-level calls started
    now,       \* the wall clock of the server, in seconds
    hpc,       \* hpc[p]: where p stands in its HTTP handler or sweep cycle
    h          \* h[p]: locals of that handler, and its response

kvvars == <<now, hpc, h>>
vars == <<vtype, buckets, mu, pc, call, ret, last, version, added, nops,
          now, hpc, h>>

\* len(cm.buckets), and the indices of cm.buckets
NumShards == Cardinality(DOMAIN buckets)
Buckets == DOMAIN buckets

bucketIndexForKey(k) == Mod64(fnv64a(k), NumShards)

\* mutant of BucketOf: the hasher is the first byte of the key
BucketOf_FirstByte == [k \in Keys |-> k[1] % NumShards]

\* bucketIndexForKey on the keys in use
BucketOf == Route[NumShards]

\* the zero value of V
ZeroStored == [Data |-> <<>>, HasTTL |-> FALSE, ExpiresAt |-> 0]
ZeroOf(t) ==
    CASE t = "StoredValue" -> ZeroStored
      [] t = "int64" -> Int64(0)
      [] OTHER -> 0
ZeroV == ZeroOf(vtype)

\* locals and response of a handler: its key, the handler that answered last
\* and whether it answered 200/201 (found) or 404, the sweep's slice and
\* the time it sampled, and the ttl_seconds of a PUT's request
NoHandler ==
    [k |-> NoKey, done |-> "none", found |-> FALSE, toDelete |-> <<>>, now |-> 0,
     ttl |-> Int64(0)]

NoFn == [kind |-> "none", arg |-> 0]
NoCall ==
    [op |-> "none", k |-> NoKey, v |-> ZeroV, fn |-> NoFn, idx |-> 0, i |-> 0,
     old |-> ZeroV, exists |-> FALSE, total |-> 0, pending |-> {},
     acc |-> <<>>, ver0 |-> 0, numBuckets |-> 0, hasher |-> "nil",
     hash |-> Int64(0)]
NoRet ==
    [op |-> "none", k |-> NoKey, val |-> ZeroV, ok |-> FALSE, n |-> 0,
     seen |-> <<>>, old |-> ZeroV, exists |-> FALSE, keep |-> FALSE,
     fncalls |-> 0, ver0 |-> 0, hash |-> Int64(0)]

\* v, ok := m[k]
Lookup(m, k) == IF k \in DOMAIN m THEN <<m[k], TRUE>> ELSE <<ZeroV, FALSE>>
\* m[k] = v
MapStore(m, k, v) == [x \in (DOMAIN m) \cup {k} |-> IF x = k THEN v ELSE m[x]]
\* delete(m, k)
MapDelete(m, k) == [x \in (DOMAIN m) \ {k} |-> m[x]]
EmptyMap == [x \in {} |-> 0]

\* ----------------------------------------------------------- sync.RWMutex
Unlocked == [writer |-> NoProc, readers |-> {}]
CanLock(i) == mu[i].writer = NoProc /\ mu[i].readers = {}
CanRLock(i) == mu[i].writer = NoProc
Locked(i, p) == [mu EXCEPT ![i].writer = p]
RLocked(i, p) == [mu EXCEPT ![i].readers = @ \cup {p}]
Released(i, p) ==
    [mu EXCEPT ![i] = [writer |-> IF @.writer = p THEN NoProc ELSE @.writer,
                       readers |-> @.readers \ {p}]]

\* ------------------------------------------------------------ construction
\* buckets := make([]bucket[K, V], n), every buckets[i].m an empty map and
\* every buckets[i].mu unlocked
NewBuckets(n) == [i \in 0..(n - 1) |-> EmptyMap]
NewLocks(n) == [i \in 0..(n - 1) |-> Unlocked]

\* New[K, V](n, fnv64a) has returned, for the value type t
InitSharded(t, n) ==
    /\ vtype = t
    /\ buckets = NewBuckets(n)
    /\ mu = NewLocks(n)
    /\ pc = [p \in AllProcs |-> "idle"]
    /\ call = [p \in AllProcs |-> [NoCall EXCEPT !.v = ZeroOf(t), !.old = ZeroOf(t)]]
    /\ ret = [p \in AllProcs |-> [NoRet EXCEPT !.val = ZeroOf(t), !.old = ZeroOf(t)]]
    /\ last = [k \in Keys |-> [kind |-> "none", val |-> ZeroOf(t), ok |-> FALSE]]
    /\ version = 0
    /\ added = [k \in Keys |-> Int64(0)]
    /\ nops = 0
    /\ now = 0
    /\ hpc = [p \in AllProcs |-> "none"]
    /\ h = [p \in AllProcs |-> NoHandler]

\* New[K, V](NumBuckets, fnv64a)
InitMap(t) == InitSharded(t, NumBuckets)

\* a mutation of key k takes effect and leaves k holding val, or absent;
\* delta is what an Inc added, 0 for the others
Effect(k, kind, val, present, delta) ==
    /\ added' = [added EXCEPT ![k] = Add64(@, delta)]
    /\ last' = [last EXCEPT ![k] = [kind |-> kind, val |-> val, ok |-> present]]
    /\ version' = version + 1
NoEffect == UNCHANGED <<last, version, added>>

\* goroutine p enters a map method with arguments and locals c
Invoke(p, c, at) ==
    /\ pc[p] = "idle"
    /\ call' = [call EXCEPT ![p] = c]
    /\ pc' = [pc EXCEPT ![p] = at]
    /\ ret' = [ret EXCEPT ![p] = NoRet]
    /\ UNCHANGED <<vtype, buckets, mu>>
    /\ NoEffect

\* goroutine p leaves its method with result r
Return(p, r) ==
    /\ pc' = [pc EXCEPT ![p] = "idle"]
    /\ call' = [call EXCEPT ![p] = NoCall]
    /\ ret' = [ret EXCEPT ![p] = r]

\* a direct caller of the map starts a call
Caller(p) == hpc[p] = "none" /\ nops < MaxOps /\ nops' = nops + 1
                /\ UNCHANGED kvvars

\* --------------------------------------------------------------------- New
\* The program before it has a map: vtype = "none", no buckets. The value
\* type of the map New constructs is int.
InitNew ==
    /\ vtype = "none"
    /\ buckets = NewBuckets(0)
    /\ mu = NewLocks(0)
    /\ pc = [p \in AllProcs |-> "idle"]
    /\ call = [p \in AllProcs |-> NoCall]
    /\ ret = [p \in AllProcs |-> NoRet]
    /\ last = [k \in Keys |-> [kind |-> "none", val |-> 0, ok |-> FALSE]]
    /\ version = 0
    /\ added = [k \in Keys |-> Int64(0)]
    /\ nops = 0
    /\ now = 0
    /\ hpc = [p \in AllProcs |-> "none"]
    /\ h = [p \in AllProcs |-> NoHandler]

\* the arguments New is called with: a number of buckets, and a hasher that
\* is nil or fnv64a (NewStringMap)
BucketCounts == (0 - 1)..NumBuckets
Hashers == {"nil", "fnv64a"}

NewCall(n, hasher) == [NoCall EXCEPT !.op = "New", !.numBuckets = n, !.hasher = hasher]

\* goroutine p calls New(n, hasher); the program has no map yet and no
\* goroutine is constructing one
CallNew(p, n, hasher) ==
    /\ vtype = "none"
    /\ \A q \in AllProcs : pc[q] = "idle"
    /\ call' = [call EXCEPT ![p] = NewCall(n, hasher)]
    /\ pc' = [pc EXCEPT ![p] = "New"]
    /\ UNCHANGED <<vtype, buckets, mu, ret, nops>> /\ UNCHANGED kvvars
    /\ NoEffect

\* mutant of NewStep: only a negative numBuckets panics
NewStep_AllowsZero(p) ==
    LET c == call[p] IN
    /\ pc[p] = "New"
    /\ IF c.numBuckets < 0 \/ c.hasher = "nil"
       THEN /\ pc' = [pc EXCEPT ![p] = "panic"]
            /\ UNCHANGED <<vtype, buckets, mu, call, ret>>
       ELSE /\ vtype' = "int"
            /\ buckets' = NewBuckets(c.numBuckets)
            /\ mu' = NewLocks(c.numBuckets)
            /\ Return(p, [NoRet EXCEPT !.op = "New"])
    /\ UNCHANGED nops /\ UNCHANGED kvvars
    /\ NoEffect

\* the body of New: panic on numBuckets <= 0 or on a nil hasher (the
\* goroutine never returns and the program has no map), else allocate the
\* buckets with their empty maps and return the map
NewStep(p) ==
    LET c == call[p] IN
    /\ pc[p] = "New"
    /\ IF c.numBuckets <= 0 \/ c.hasher = "nil"
       THEN /\ pc' = [pc EXCEPT ![p] = "panic"]
            /\ UNCHANGED <<vtype, buckets, mu, call, ret>>
       ELSE /\ vtype' = "int"
            /\ buckets' = NewBuckets(c.numBuckets)
            /\ mu' = NewLocks(c.numBuckets)
            /\ Return(p, [NoRet EXCEPT !.op = "New"])
    /\ UNCHANGED nops /\ UNCHANGED kvvars
    /\ NoEffect

\* ------------------------------------------------------------------ fnv64a
\* var hash uint64 = offset64; i := 0
HashCall(s) == [NoCall EXCEPT !.op = "fnv64a", !.k = s, !.i = 0, !.hash = offset64]

CallHash(p, s) == Caller(p) /\ Invoke(p, HashCall(s), "fnv64a_loop")

\* i < len(s): hash ^= uint64(s[i]); hash *= prime64; i++, else return hash
HashLoop(p) ==
    LET c == call[p] IN
    /\ pc[p] = "fnv64a_loop"
    /\ IF c.i < Len(c.k)
       THEN /\ call' = [call EXCEPT
                          ![p].hash = Mul64([@ EXCEPT ![1] = XorByte(@, c.k[c.i + 1])],
                                            prime64),
                          ![p].i = c.i + 1]
            /\ UNCHANGED <<pc, ret>>
       ELSE Return(p, [NoRet EXCEPT !.op = "fnv64a", !.k = c.k, !.hash = c.hash])
    /\ UNCHANGED <<vtype, buckets, mu, nops>> /\ UNCHANGED kvvars
    /\ NoEffect

\* --------------------------------------------------------------------- Set
SetCall(k, v) == [NoCall EXCEPT !.op = "Set", !.k = k, !.v = v, !.idx = BucketOf[k]]

CallSet(p, k, v) == Caller(p) /\ Invoke(p, SetCall(k, v), "Set_lock")

\* mutant of SetLock: b.mu.RLock() in place of b.mu.Lock()
SetLock_Shared(p) ==
    /\ pc[p] = "Set_lock"
    /\ CanRLock(call[p].idx)
    /\ mu' = RLocked(call[p].idx, p)
    /\ pc' = [pc EXCEPT ![p] = "Set_write"]
    /\ UNCHANGED <<vtype, buckets, call, ret, nops>> /\ UNCHANGED kvvars
    /\ NoEffect

SetLock(p) ==
    /\ pc[p] = "Set_lock"
    /\ CanLock(call[p].idx)
    /\ mu' = Locked(call[p].idx, p)
    /\ pc' = [pc EXCEPT ![p] = "Set_write"]
    /\ UNCHANGED <<vtype, buckets, call, ret, nops>> /\ UNCHANGED kvvars
    /\ NoEffect

\* mutant of SetWrite: a key that is present keeps its value
SetWrite_KeepsOld(p) ==
    LET c == call[p] IN
    /\ pc[p] = "Set_write"
    /\ buckets' = [buckets EXCEPT ![c.idx] =
                      IF c.k \in DOMAIN @ THEN @ ELSE MapStore(@, c.k, c.v)]
    /\ mu' = Released(c.idx, p)
    /\ Effect(c.k, "Set", c.v, TRUE, Int64(0))
    /\ Return(p, [NoRet EXCEPT !.op = "Set", !.k = c.k, !.val = c.v])
    /\ UNCHANGED <<vtype, nops>> /\ UNCHANGED kvvars

\* b.m[k] = v, then the deferred Unlock
SetWrite(p) ==
    LET c == call[p] IN
    /\ pc[p] = "Set_write"
    /\ buckets' = [buckets EXCEPT ![c.idx] = MapStore(@, c.k, c.v)]
    /\ mu' = Released(c.idx, p)
    /\ Effect(c.k, "Set", c.v, TRUE, Int64(0))
    /\ Return(p, [NoRet EXCEPT !.op = "Set", !.k = c.k, !.val = c.v])
    /\ UNCHANGED <<vtype, nops>> /\ UNCHANGED kvvars

\* --------------------------------------------------------------------- Get
GetCall(k) == [NoCall EXCEPT !.op = "Get", !.k = k, !.idx = BucketOf[k]]

CallGet(p, k) == Caller(p) /\ Invoke(p, GetCall(k), "Get_rlock")

GetRLock(p) ==
    /\ pc[p] = "Get_rlock"
    /\ CanRLock(call[p].idx)
    /\ mu' = RLocked(call[p].idx, p)
    /\ pc' = [pc EXCEPT ![p] = "Get_read"]
    /\ UNCHANGED <<vtype, buckets, call, ret, nops>> /\ UNCHANGED kvvars
    /\ NoEffect

\* v, ok := b.m[k], then the deferred RUnlock
GetRead(p) ==
    LET c == call[p]
        r == Lookup(buckets[c.idx], c.k)
    IN
    /\ pc[p] = "Get_read"
    /\ mu' = Released(c.idx, p)
    /\ Return(p, [NoRet EXCEPT !.op = "Get", !.k = c.k, !.val = r[1], !.ok = r[2]])
    /\ UNCHANGED <<vtype, buckets, nops>> /\ UNCHANGED kvvars
    /\ NoEffect

\* ------------------------------------------------------------------ Delete
DeleteCall(k) == [NoCall EXCEPT !.op = "Delete", !.k = k, !.idx = BucketOf[k]]

CallDelete(p, k) == Caller(p) /\ Invoke(p, DeleteCall(k), "Delete_lock")

DeleteLock(p) ==
    /\ pc[p] = "Delete_lock"
    /\ CanLock(call[p].idx)
    /\ mu' = Locked(call[p].idx, p)
    /\ pc' = [pc EXCEPT ![p] = "Delete_write"]
    /\ UNCHANGED <<vtype, buckets, call, ret, nops>> /\ UNCHANGED kvvars
    /\ NoEffect

\* mutant of DeleteWrite: the bucket's whole map is dropped
DeleteWrite_Clear(p) ==
    LET c == call[p] IN
    /\ pc[p] = "Delete_write"
    /\ buckets' = [buckets EXCEPT ![c.idx] = EmptyMap]
    /\ mu' = Released(c.idx, p)
    /\ Effect(c.k, "Delete", ZeroV, FALSE, Int64(0))
    /\ Return(p, [NoRet EXCEPT !.op = "Delete", !.k = c.k])
    /\ UNCHANGED <<vtype, nops>> /\ UNCHANGED kvvars

\* delete(b.m, k), then the deferred Unlock
DeleteWrite(p) ==
    LET c == call[p] IN
    /\ pc[p] = "Delete_write"
    /\ buckets' = [buckets EXCEPT ![c.idx] = MapDelete(@, c.k)]
    /\ mu' = Released(c.idx, p)
    /\ Effect(c.k, "Delete", ZeroV, FALSE, Int64(0))
    /\ Return(p, [NoRet EXCEPT !.op = "Delete", !.k = c.k])
    /\ UNCHANGED <<vtype, nops>> /\ UNCHANGED kvvars

\* ------------------------------------------------------------- LoadOrStore
LoadOrStoreCall(k, v) ==
    [NoCall EXCEPT !.op = "LoadOrStore", !.k = k, !.v = v, !.idx = BucketOf[k]]

CallLoadOrStore(p, k, v) ==
    Caller(p) /\ Invoke(p, LoadOrStoreCall(k, v), "LoadOrStore_lock")

\* mutant of LoadOrStoreLock: b.mu.RLock() in place of b.mu.Lock()
LoadOrStoreLock_Shared(p) ==
    /\ pc[p] = "LoadOrStore_lock"
    /\ CanRLock(call[p].idx)
    /\ mu' = RLocked(call[p].idx, p)
    /\ pc' = [pc EXCEPT ![p] = "LoadOrStore_check"]
    /\ UNCHANGED <<vtype, buckets, call, ret, nops>> /\ UNCHANGED kvvars
    /\ NoEffect

LoadOrStoreLock(p) ==
    /\ pc[p] = "LoadOrStore_lock"
    /\ CanLock(call[p].idx)
    /\ mu' = Locked(call[p].idx, p)
    /\ pc' = [pc EXCEPT ![p] = "LoadOrStore_check"]
    /\ UNCHANGED <<vtype, buckets, call, ret, nops>> /\ UNCHANGED kvvars
    /\ NoEffect

\* mutant of LoadOrStoreCheck: the existing value is never returned
LoadOrStoreCheck_NoLoad(p) ==
    /\ pc[p] = "LoadOrStore_check"
    /\ pc' = [pc EXCEPT ![p] = "LoadOrStore_store"]
    /\ UNCHANGED <<mu, call, ret>>
    /\ UNCHANGED <<vtype, buckets, nops>> /\ UNCHANGED kvvars
    /\ NoEffect

\* mutant of LoadOrStoreCheck: the early return leaves the bucket locked
LoadOrStoreCheck_KeepsLock(p) ==
    LET c == call[p]
        r == Lookup(buckets[c.idx], c.k)
    IN
    /\ pc[p] = "LoadOrStore_check"
    /\ IF r[2]
       THEN /\ UNCHANGED mu
            /\ Return(p, [NoRet EXCEPT !.op = "LoadOrStore", !.k = c.k,
                                       !.val = r[1], !.ok = TRUE])
       ELSE /\ pc' = [pc EXCEPT ![p] = "LoadOrStore_store"]
            /\ UNCHANGED <<mu, call, ret>>
    /\ UNCHANGED <<vtype, buckets, nops>> /\ UNCHANGED kvvars
    /\ NoEffect

\* if existing, ok := b.m[k]; ok { return existing, true }
LoadOrStoreCheck(p) ==
    LET c == call[p]
        r == Lookup(buckets[c.idx], c.k)
    IN
    /\ pc[p] = "LoadOrStore_check"
    /\ IF r[2]
       THEN /\ mu' = Released(c.idx, p)
            /\ Return(p, [NoRet EXCEPT !.op = "LoadOrStore", !.k = c.k,
                                       !.val = r[1], !.ok = TRUE])
       ELSE /\ pc' = [pc EXCEPT ![p] = "LoadOrStore_store"]
            /\ UNCHANGED <<mu, call, ret>>
    /\ UNCHANGED <<vtype, buckets, nops>> /\ UNCHANGED kvvars
    /\ NoEffect

\* b.m[k] = v; return v, false; then the deferred Unlock
LoadOrStoreStore(p) ==
    LET c == call[p] IN
    /\ pc[p] = "LoadOrStore_store"
    /\ buckets' = [buckets EXCEPT ![c.idx] = MapStore(@, c.k, c.v)]
    /\ mu' = Released(c.idx, p)
    /\ Effect(c.k, "LoadOrStore", c.v, TRUE, Int64(0))
    /\ Return(p, [NoRet EXCEPT !.op = "LoadOrStore", !.k = c.k,
                               !.val = c.v, !.ok = FALSE])
    /\ UNCHANGED <<vtype, nops>> /\ UNCHANGED kvvars

\* ----------------------------------------------------------------- Compute
\* The callbacks handed to Compute: fn(old, exists) = (newV, keep), and the
\* value the closure leaves in the variable it captured.
\*   "inc"    the closure of CounterMap.Inc with delta = arg, an int64
\*   "put"    returns (arg, true)
\*   "drop"   returns (arg, false)
\*   "toggle" returns (old, false) if the key exists, else (arg, true)
\* mutant of IncFn: the old value is forgotten
IncFn_Forget(old, exists, delta) ==
    [val |-> delta, keep |-> TRUE, result |-> delta]

\* mutant of IncFn: a sum beyond math.MaxInt64 stays at math.MaxInt64
IncFn_Saturate(old, exists, delta) ==
    LET sum == IF old[8] < 128 /\ delta[8] < 128 /\ Add64(old, delta)[8] >= 128
               THEN MaxInt64 ELSE Add64(old, delta)
    IN  IF ~exists
        THEN [val |-> delta, keep |-> TRUE, result |-> delta]
        ELSE [val |-> sum, keep |-> TRUE, result |-> sum]

IncFn(old, exists, delta) ==
    IF ~exists
    THEN [val |-> delta, keep |-> TRUE, result |-> delta]
    ELSE [val |-> Add64(old, delta), keep |-> TRUE, result |-> Add64(old, delta)]

ApplyFn(fn, old, exists) ==
    CASE fn.kind = "inc" -> IncFn(old, exists, fn.arg)
      [] fn.kind = "put" -> [val |-> fn.arg, keep |-> TRUE, result |-> fn.arg]
      [] fn.kind = "drop" -> [val |-> fn.arg, keep |-> FALSE, result |-> fn.arg]
      [] OTHER -> IF exists
                  THEN [val |-> old, keep |-> FALSE, result |-> old]
                  ELSE [val |-> fn.arg, keep |-> TRUE, result |-> fn.arg]

ComputeCall(k, fn) ==
    [NoCall EXCEPT !.op = "Compute", !.k = k, !.fn = fn, !.idx = BucketOf[k]]

CallCompute(p, k, fn) == Caller(p) /\ Invoke(p, ComputeCall(k, fn), "Compute_lock")

\* mutant of ComputeLock: b.mu.RLock() in place of b.mu.Lock()
ComputeLock_Shared(p) ==
    /\ pc[p] = "Compute_lock"
    /\ CanRLock(call[p].idx)
    /\ mu' = RLocked(call[p].idx, p)
    /\ pc' = [pc EXCEPT ![p] = "Compute_read"]
    /\ UNCHANGED <<vtype, buckets, call, ret, nops>> /\ UNCHANGED kvvars
    /\ NoEffect

ComputeLock(p) ==
    /\ pc[p] = "Compute_lock"
    /\ CanLock(call[p].idx)
    /\ mu' = Locked(call[p].idx, p)
    /\ pc' = [pc EXCEPT ![p] = "Compute_read"]
    /\ UNCHANGED <<vtype, buckets, call, ret, nops>> /\ UNCHANGED kvvars
    /\ NoEffect

\* old, exists := b.m[k]
ComputeRead(p) ==
    LET c == call[p]
        r == Lookup(buckets[c.idx], c.k)
    IN
    /\ pc[p] = "Compute_read"
    /\ call' = [call EXCEPT ![p].old = r[1], ![p].exists = r[2]]
    /\ pc' = [pc EXCEPT ![p] = "Compute_store"]
    /\ UNCHANGED <<vtype, buckets, mu, ret, nops>> /\ UNCHANGED kvvars
    /\ NoEffect

\* mutant of ComputeStore: the keep flag is ignored
ComputeStore_IgnoreKeep(p) ==
    LET c == call[p]
        f == ApplyFn(c.fn, c.old, c.exists)
    IN
    /\ pc[p] = "Compute_store"
    /\ buckets' = [buckets EXCEPT ![c.idx] = MapStore(@, c.k, f.val)]
    /\ Effect(c.k, "Compute", f.val, TRUE, IF c.fn.kind = "inc" THEN c.fn.arg ELSE Int64(0))
    /\ mu' = Released(c.idx, p)
    /\ Return(p, [NoRet EXCEPT !.op = IF c.fn.kind = "inc" THEN "Inc" ELSE "Compute",
                               !.k = c.k, !.val = f.result, !.ok = f.keep,
                               !.old = c.old, !.exists = c.exists,
                               !.keep = f.keep, !.fncalls = 1])
    /\ UNCHANGED <<vtype, nops>> /\ UNCHANGED kvvars

\* newVal, keep := fn(old, exists); delete or store; then the deferred Unlock
ComputeStore(p) ==
    LET c == call[p]
        f == ApplyFn(c.fn, c.old, c.exists)
    IN
    /\ pc[p] = "Compute_store"
    /\ IF ~f.keep
       THEN /\ buckets' = [buckets EXCEPT ![c.idx] = MapDelete(@, c.k)]
            /\ Effect(c.k, "Compute", ZeroV, FALSE, Int64(0))
       ELSE /\ buckets' = [buckets EXCEPT ![c.idx] = MapStore(@, c.k, f.val)]
            /\ Effect(c.k, "Compute", f.val, TRUE, IF c.fn.kind = "inc" THEN c.fn.arg ELSE Int64(0))
    /\ mu' = Released(c.idx, p)
    /\ Return(p, [NoRet EXCEPT !.op = IF c.fn.kind = "inc" THEN "Inc" ELSE "Compute",
                               !.k = c.k, !.val = f.result, !.ok = f.keep,
                               !.old = c.old, !.exists = c.exists,
                               !.keep = f.keep, !.fncalls = 1])
    /\ UNCHANGED <<vtype, nops>> /\ UNCHANGED kvvars

\* ------------------------------------------------------------- CounterMap
\* cm.m.Compute(k, func(old, exists) {...}); return result
CallInc(p, k, delta) ==
    Caller(p) /\ Invoke(p, ComputeCall(k, [kind |-> "inc", arg |-> delta]), "Compute_lock")

\* --------------------------------------------------------------------- Len
LenCall == [NoCall EXCEPT !.op = "Len", !.ver0 = version]

CallLen(p) == Caller(p) /\ Invoke(p, LenCall, "Len_rlock")

LenRLock(p) ==
    /\ pc[p] = "Len_rlock"
    /\ CanRLock(call[p].i)
    /\ mu' = RLocked(call[p].i, p)
    /\ pc' = [pc EXCEPT ![p] = "Len_read"]
    /\ UNCHANGED <<vtype, buckets, call, ret, nops>> /\ UNCHANGED kvvars
    /\ NoEffect

\* mutant of LenRead: total = len(b.m), the earlier buckets are forgotten
LenRead_Assign(p) ==
    LET c == call[p]
        total == Cardinality(DOMAIN buckets[c.i])
    IN
    /\ pc[p] = "Len_read"
    /\ mu' = Released(c.i, p)
    /\ IF c.i + 1 < NumShards
       THEN /\ call' = [call EXCEPT ![p].i = c.i + 1, ![p].total = total]
            /\ pc' = [pc EXCEPT ![p] = "Len_rlock"]
            /\ UNCHANGED ret
       ELSE Return(p, [NoRet EXCEPT !.op = "Len", !.n = total, !.ver0 = c.ver0])
    /\ UNCHANGED <<vtype, buckets, nops>> /\ UNCHANGED kvvars
    /\ NoEffect

\* mutant of LenRead: total += len(cm.buckets[0].m) for every bucket
LenRead_FirstBucket(p) ==
    LET c == call[p]
        total == c.total + Cardinality(DOMAIN buckets[0])
    IN
    /\ pc[p] = "Len_read"
    /\ mu' = Released(c.i, p)
    /\ IF c.i + 1 < NumShards
       THEN /\ call' = [call EXCEPT ![p].i = c.i + 1, ![p].total = total]
            /\ pc' = [pc EXCEPT ![p] = "Len_rlock"]
            /\ UNCHANGED ret
       ELSE Return(p, [NoRet EXCEPT !.op = "Len", !.n = total, !.ver0 = c.ver0])
    /\ UNCHANGED <<vtype, buckets, nops>> /\ UNCHANGED kvvars
    /\ NoEffect

\* total += len(b.m); b.mu.RUnlock(); next bucket, or return total
LenRead(p) ==
    LET c == call[p]
        total == c.total + Cardinality(DOMAIN buckets[c.i])
    IN
    /\ pc[p] = "Len_read"
    /\ mu' = Released(c.i, p)
    /\ IF c.i + 1 < NumShards
       THEN /\ call' = [call EXCEPT ![p].i = c.i + 1, ![p].total = total]
            /\ pc' = [pc EXCEPT ![p] = "Len_rlock"]
            /\ UNCHANGED ret
       ELSE Return(p, [NoRet EXCEPT !.op = "Len", !.n = total, !.ver0 = c.ver0])
    /\ UNCHANGED <<vtype, buckets, nops>> /\ UNCHANGED kvvars
    /\ NoEffect

\* ------------------------------------------------------------------- Range
\* The visitors handed to Range: f(key, value) = continue?, and what the
\* closure appends to the slice it captured.
\*   "all"     records every pair, never stops
\*   "stopAt"  records every pair, stops at key arg
\*   "expired" the closure of the expiry worker: collects the keys whose
\*             record has a deadline before arg, never stops
Expired(value, t) == value.HasTTL /\ t > value.ExpiresAt

\* mutant of Visit: the expiry worker's closure does not look at HasTTL
Visit_IgnoresHasTTL(f, acc, k, v) ==
    CASE f.kind = "expired" ->
             [acc |-> IF f.arg > v.ExpiresAt THEN Append(acc, k) ELSE acc,
              cont |-> TRUE]
      [] f.kind = "stopAt" -> [acc |-> Append(acc, <<k, v>>), cont |-> k # f.arg]
      [] OTHER -> [acc |-> Append(acc, <<k, v>>), cont |-> TRUE]

Visit(f, acc, k, v) ==
    CASE f.kind = "expired" ->
             [acc |-> IF Expired(v, f.arg) THEN Append(acc, k) ELSE acc,
              cont |-> TRUE]
      [] f.kind = "stopAt" -> [acc |-> Append(acc, <<k, v>>), cont |-> k # f.arg]
      [] OTHER -> [acc |-> Append(acc, <<k, v>>), cont |-> TRUE]

RangeCall(f) == [NoCall EXCEPT !.op = "Range", !.fn = f, !.ver0 = version]

CallRange(p, f) == Caller(p) /\ Invoke(p, RangeCall(f), "Range_rlock")

\* mutant of RangeRLock: the bucket is ranged over without b.mu.RLock()
RangeRLock_NoLock(p) ==
    /\ pc[p] = "Range_rlock"
    /\ call' = [call EXCEPT ![p].pending = DOMAIN buckets[call[p].i]]
    /\ pc' = [pc EXCEPT ![p] = "Range_visit"]
    /\ UNCHANGED <<vtype, buckets, mu, ret, nops>> /\ UNCHANGED kvvars
    /\ NoEffect

RangeRLock(p) ==
    /\ pc[p] = "Range_rlock"
    /\ CanRLock(call[p].i)
    /\ mu' = RLocked(call[p].i, p)
    /\ call' = [call EXCEPT ![p].pending = DOMAIN buckets[call[p].i]]
    /\ pc' = [pc EXCEPT ![p] = "Range_visit"]
    /\ UNCHANGED <<vtype, buckets, ret, nops>> /\ UNCHANGED kvvars
    /\ NoEffect

\* mutant of RangeVisit: break in place of return, the later buckets are
\* still visited
RangeVisit_Break(p) ==
    LET c == call[p] IN
    /\ pc[p] = "Range_visit"
    /\ \E k \in c.pending :
         LET r == Visit(c.fn, c.acc, k, Lookup(buckets[c.i], k)[1]) IN
         IF k \notin DOMAIN buckets[c.i]
         THEN /\ call' = [call EXCEPT ![p].pending = @ \ {k}]
              /\ UNCHANGED <<mu, pc, ret>>
         ELSE IF ~r.cont
         THEN /\ call' = [call EXCEPT ![p].pending = {}, ![p].acc = r.acc]
              /\ UNCHANGED <<mu, pc, ret>>
         ELSE /\ call' = [call EXCEPT ![p].pending = @ \ {k}, ![p].acc = r.acc]
              /\ UNCHANGED <<mu, pc, ret>>
    /\ UNCHANGED <<vtype, buckets, nops>> /\ UNCHANGED kvvars
    /\ NoEffect

\* mutant of RangeVisit: the expiry worker's visitor deletes the expired
\* key from the bucket it is ranging over, under the shared lock
RangeVisit_DeleteInPlace(p) ==
    LET c == call[p] IN
    /\ pc[p] = "Range_visit"
    /\ \E k \in c.pending :
         LET r == Visit(c.fn, c.acc, k, Lookup(buckets[c.i], k)[1]) IN
         IF k \notin DOMAIN buckets[c.i]
         THEN /\ call' = [call EXCEPT ![p].pending = @ \ {k}]
              /\ UNCHANGED <<mu, pc, ret, buckets>>
              /\ NoEffect
         ELSE IF ~r.cont
         THEN /\ mu' = Released(c.i, p)
              /\ Return(p, [NoRet EXCEPT !.op = "Range", !.seen = r.acc,
                                         !.ok = FALSE, !.ver0 = c.ver0])
              /\ UNCHANGED buckets
              /\ NoEffect
         ELSE /\ call' = [call EXCEPT ![p].pending = @ \ {k}, ![p].acc = r.acc]
              /\ UNCHANGED <<mu, pc, ret>>
              /\ IF c.fn.kind = "expired" /\ r.acc # c.acc
                 THEN /\ buckets' = [buckets EXCEPT ![c.i] = MapDelete(@, k)]
                      /\ Effect(k, "delete", ZeroV, FALSE, Int64(0))
                 ELSE UNCHANGED buckets /\ NoEffect
    /\ UNCHANGED <<vtype, nops>> /\ UNCHANGED kvvars

\* one iteration of for k, v := range b.m, in the order the runtime picks
RangeVisit(p) ==
    LET c == call[p] IN
    /\ pc[p] = "Range_visit"
    /\ \E k \in c.pending :
         LET r == Visit(c.fn, c.acc, k, Lookup(buckets[c.i], k)[1]) IN
         IF k \notin DOMAIN buckets[c.i]
         THEN /\ call' = [call EXCEPT ![p].pending = @ \ {k}]
              /\ UNCHANGED <<mu, pc, ret>>
         ELSE IF ~r.cont
         THEN /\ mu' = Released(c.i, p)
              /\ Return(p, [NoRet EXCEPT !.op = "Range", !.seen = r.acc,
                                         !.ok = FALSE, !.ver0 = c.ver0])
         ELSE /\ call' = [call EXCEPT ![p].pending = @ \ {k}, ![p].acc = r.acc]
              /\ UNCHANGED <<mu, pc, ret>>
    /\ UNCHANGED <<vtype, buckets, nops>> /\ UNCHANGED kvvars
    /\ NoEffect

\* b.mu.RUnlock() after the bucket's last pair; next bucket, or return
RangeRUnlock(p) ==
    LET c == call[p] IN
    /\ pc[p] = "Range_visit"
    /\ c.pending = {}
    /\ mu' = Released(c.i, p)
    /\ IF c.i + 1 < NumShards
       THEN /\ call' = [call EXCEPT ![p].i = c.i + 1]
            /\ pc' = [pc EXCEPT ![p] = "Range_rlock"]
            /\ UNCHANGED ret
       ELSE Return(p, [NoRet EXCEPT !.op = "Range", !.seen = c.acc,
                                    !.ok = TRUE, !.ver0 = c.ver0])
    /\ UNCHANGED <<vtype, buckets, nops>> /\ UNCHANGED kvvars
    /\ NoEffect

\* --------------------------------------------------------------- kv-server
\* The bodies of PUT requests: JSON {"value": value, "ttl_seconds": ttl}, or
\* bytes that are no JSON object.
\* the keys requests name: the first and the last of the keys in use
KVKeys == {AllKeys[1], AllKeys[NumKeys]}
TTLs == 0..MaxTTL
Bodies ==
    {[json |-> TRUE, value |-> <<"v">>, ttl |-> Int64(t)] : t \in TTLs}
       \cup {[json |-> FALSE, value |-> <<"raw">>, ttl |-> Int64(0)]}

\* ttl_seconds is an int64: 2^55 seconds, and the bodies with it and with a
\* negative ttl_seconds
LongTTL == <<0, 0, 0, 0, 0, 0, 128, 0>>
PutBodies ==
    Bodies \cup {[json |-> TRUE, value |-> <<"v">>, ttl |-> t] :
                    t \in {Int64(-1), LongTTL}}

\* time.Second, a time.Duration: an int64 of nanoseconds
Second == <<0, 202, 154, 59, 0, 0, 0, 0>>

\* the seconds of a time.Duration d; the clock of the model counts seconds
\* (10^9 = 2^9 * 5^9: shift by nine bits, then divide by 5^9)
Seconds(d) ==
    LET u == IF d[8] >= 128 THEN Neg64(d) ELSE d
        w == [i \in 1..7 |-> (u[i + 1] \div 2) + IF i < 7 THEN (u[i + 2] % 2) * 128 ELSE 0]
        RECURSIVE div(_, _, _)
        div(i, r, q) ==
            IF i = 0 THEN q
            ELSE div(i - 1, (r * 256 + w[i]) % (5 ^ 9),
                     q * 256 + ((r * 256 + w[i]) \div (5 ^ 9)))
    IN  IF d[8] >= 128 THEN 0 - div(7, 0, 0) ELSE div(7, 0, 0)

\* the bytes of a body
BodyBytes(body) ==
    IF body.json THEN <<"{", body.value, body.ttl, "}">> ELSE body.value

\* the StoredValue handlePutJSON builds from a body read at time t
StoredFrom(body, t) ==
    IF body.json /\ body.value # <<>>
    THEN IF Positive64(body.ttl)
         THEN [Data |-> body.value, HasTTL |-> TRUE,
               ExpiresAt |-> t + Seconds(Mul64(body.ttl, Second))]
         ELSE [Data |-> body.value, HasTTL |-> FALSE, ExpiresAt |-> 0]
    ELSE [Data |-> BodyBytes(body), HasTTL |-> FALSE, ExpiresAt |-> 0]

\* a handler (or the expiry worker) starts
Handler(p, at, k) ==
    /\ hpc[p] = "none"
    /\ nops < MaxOps
    /\ nops' = nops + 1
    /\ hpc' = [hpc EXCEPT ![p] = at]
    /\ h' = [h EXCEPT ![p] = [NoHandler EXCEPT !.k = k]]
    /\ UNCHANGED now

\* a handler answers, and its locals are gone
Respond(p, done, found) ==
    /\ hpc' = [hpc EXCEPT ![p] = "none"]
    /\ h' = [h EXCEPT ![p] = [NoHandler EXCEPT !.k = h[p].k, !.done = done,
                                              !.found = found]]
    /\ ret' = [ret EXCEPT ![p] = NoRet]
    /\ UNCHANGED <<vtype, buckets, mu, pc, call, nops, now>>
    /\ NoEffect

\* handlePutJSON: build the record, s.store.Set(key, stored)
PutBegin(p, k, body) ==
    /\ hpc[p] = "none"
    /\ nops < MaxOps
    /\ nops' = nops + 1
    /\ hpc' = [hpc EXCEPT ![p] = "put"]
    /\ h' = [h EXCEPT ![p] =
                [NoHandler EXCEPT !.k = k,
                                  !.ttl = IF body.json THEN body.ttl ELSE Int64(0)]]
    /\ UNCHANGED now
    /\ Invoke(p, SetCall(k, StoredFrom(body, now)), "Set_lock")

PutEnd(p) ==
    /\ hpc[p] = "put" /\ pc[p] = "idle"
    /\ Respond(p, "put", TRUE)

\* handleGetJSON: value, ok := s.store.Get(key)
GetBegin(p, k) ==
    /\ Handler(p, "get", k)
    /\ Invoke(p, GetCall(k), "Get_rlock")

\* mutant of GetCheck: the deadline is not looked at
GetCheck_NoTTL(p) ==
    /\ hpc[p] = "get" /\ pc[p] = "idle"
    /\ Respond(p, "get", ret[p].ok)

\* if !ok: 404; if value.HasTTL && time.Now().After(value.ExpiresAt):
\* s.store.Delete(key); else 200 with the value
GetCheck(p) ==
    /\ hpc[p] = "get" /\ pc[p] = "idle"
    /\ IF ~ret[p].ok
       THEN Respond(p, "get", FALSE)
       ELSE IF Expired(ret[p].val, now)
       THEN /\ Invoke(p, DeleteCall(h[p].k), "Delete_lock")
            /\ hpc' = [hpc EXCEPT ![p] = "get_expired"]
            /\ UNCHANGED <<h, nops, now>>
       ELSE Respond(p, "get", TRUE)

\* after the Delete of the lazy expiry: 404
GetExpiredEnd(p) ==
    /\ hpc[p] = "get_expired" /\ pc[p] = "idle"
    /\ Respond(p, "get", FALSE)

\* handleDelete: s.store.Delete(key)
DelBegin(p, k) ==
    /\ Handler(p, "del", k)
    /\ Invoke(p, DeleteCall(k), "Delete_lock")

DelEnd(p) ==
    /\ hpc[p] = "del" /\ pc[p] = "idle"
    /\ Respond(p, "delete", TRUE)

\* startExpiryWorker, one tick: now := time.Now(); s.store.Range(collect)
SweepBegin(p) ==
    /\ p = Sweeper
    /\ hpc[p] = "none"
    /\ nops < MaxOps
    /\ nops' = nops + 1
    /\ hpc' = [hpc EXCEPT ![p] = "sweep_range"]
    /\ h' = [h EXCEPT ![p] = [NoHandler EXCEPT !.now = now]]
    /\ UNCHANGED now
    /\ Invoke(p, RangeCall([kind |-> "expired", arg |-> now]), "Range_rlock")

\* Range has returned: toDelete is what the visitor collected
SweepCollected(p) ==
    /\ hpc[p] = "sweep_range" /\ pc[p] = "idle"
    /\ hpc' = [hpc EXCEPT ![p] = "sweep_delete"]
    /\ h' = [h EXCEPT ![p].toDelete = ret[p].seen]
    /\ UNCHANGED <<vtype, buckets, mu, pc, call, ret, nops, now>>
    /\ NoEffect

\* for _, k := range toDelete { s.store.Delete(k) }
SweepDelete(p) ==
    /\ hpc[p] = "sweep_delete" /\ pc[p] = "idle"
    /\ h[p].toDelete # <<>>
    /\ Invoke(p, DeleteCall(Head(h[p].toDelete)), "Delete_lock")
    /\ h' = [h EXCEPT ![p].toDelete = Tail(@), ![p].k = Head(h[p].toDelete)]
    /\ UNCHANGED <<hpc, nops, now>>

\* the cycle is over
SweepEnd(p) ==
    /\ hpc[p] = "sweep_delete" /\ pc[p] = "idle"
    /\ h[p].toDelete = <<>>
    /\ Respond(p, "sweep", TRUE)

\* mutant of Tick: the records whose deadline has passed go as time passes
Tick_Evicts ==
    /\ now < MaxTime
    /\ now' = now + 1
    /\ buckets' = [i \in Buckets |->
                     [k \in {x \in DOMAIN buckets[i] : ~Expired(buckets[i][x], now + 1)}
                        |-> buckets[i][k]]]
    /\ UNCHANGED <<vtype, mu, pc, call, ret, nops, hpc, h>>
    /\ NoEffect

\* a second passes
Tick ==
    /\ now < MaxTime
    /\ now' = now + 1
    /\ UNCHANGED <<vtype, buckets, mu, pc, call, ret, nops, hpc, h>>
    /\ NoEffect

\* ------------------------------------------------------------------- specs
\* The callbacks and visitors callers pass.
Fns == {[kind |-> "put", arg |-> v] : v \in Vals}
          \cup {[kind |-> "drop", arg |-> MaxVal], [kind |-> "toggle", arg |-> 1]}
Visitors == {[kind |-> "all", arg |-> NoKey]}
               \cup {[kind |-> "stopAt", arg |-> k] : k \in Keys}

\* the steps of the single-key methods
KeyStep(p) ==
    \/ SetLock(p)
    \/ SetWrite(p)
    \/ GetRLock(p)
    \/ GetRead(p)
    \/ DeleteLock(p)
    \/ DeleteWrite(p)
    \/ LoadOrStoreLock(p)
    \/ LoadOrStoreCheck(p)
    \/ LoadOrStoreStore(p)
    \/ ComputeLock(p)
    \/ ComputeRead(p)
    \/ ComputeStore(p)

\* the calls of the single-key methods
KeyCall(p) ==
    \/ \E k \in Keys, v \in Vals : CallSet(p, k, v)
    \/ \E k \in Keys : CallGet(p, k)
    \/ \E k \in Keys : CallDelete(p, k)
    \/ \E k \in Keys, v \in Vals : CallLoadOrStore(p, k, v)
    \/ \E k \in Keys, fn \in Fns : CallCompute(p, k, fn)

\* Spec: goroutines call Get, Set, Delete, LoadOrStore and Compute of a
\* ConcurrentMap[string, int] concurrently.
Init == InitMap("int")

Next == \E p \in Procs : KeyCall(p) \/ KeyStep(p)

Spec == Init /\ [][Next]_vars

\* SpecHash: goroutines call the hasher fnv64a on strings.
NextHash ==
    \E p \in Procs :
        \/ \E s \in Strings : CallHash(p, s)
        \/ HashLoop(p)
SpecHash == Init /\ [][NextHash]_vars

\* SpecRoute: the same on a map of any number of buckets.
InitRoute == \E n \in 1..NumBuckets : InitSharded("int", n)
SpecRoute == InitRoute /\ [][Next]_vars

\* SpecLen: the same, and Len.
NextLen ==
    \E p \in Procs :
        \/ \E k \in Keys, v \in Vals : CallSet(p, k, v)
        \/ \E k \in Keys : CallDelete(p, k)
        \/ \E k \in Keys, v \in Vals : CallLoadOrStore(p, k, v)
        \/ \E k \in Keys, fn \in Fns : CallCompute(p, k, fn)
        \/ CallLen(p)
        \/ SetLock(p)
        \/ SetWrite(p)
        \/ DeleteLock(p)
        \/ DeleteWrite(p)
        \/ LoadOrStoreLock(p)
        \/ LoadOrStoreCheck(p)
        \/ LoadOrStoreStore(p)
        \/ ComputeLock(p)
        \/ ComputeRead(p)
        \/ ComputeStore(p)
        \/ LenRLock(p)
        \/ LenRead(p)

SpecLen == Init /\ [][NextLen]_vars

\* SpecLOS: goroutines call nothing but LoadOrStore.
NextLOS ==
    \E p \in Procs :
        \/ \E k \in Keys, v \in Vals : CallLoadOrStore(p, k, v)
        \/ LoadOrStoreLock(p)
        \/ LoadOrStoreCheck(p)
        \/ LoadOrStoreStore(p)

SpecLOS == Init /\ [][NextLOS]_vars

\* SpecCounter: goroutines call Inc and Get of a CounterMap[string].
InitCounter == InitMap("int64")

NextCounter ==
    \E p \in Procs :
        \/ \E k \in Keys, delta \in Vals : CallInc(p, k, Int64(delta))
        \/ \E k \in Keys : CallGet(p, k)
        \/ ComputeLock(p)
        \/ ComputeRead(p)
        \/ ComputeStore(p)
        \/ GetRLock(p)
        \/ GetRead(p)

SpecCounter == InitCounter /\ [][NextCounter]_vars

\* SpecInc: the same, with deltas of either sign and of the largest magnitudes.
IncDeltas == {Int64(v) : v \in Vals} \cup {Int64(-1), MaxInt64, MinInt64}

NextInc ==
    \E p \in Procs :
        \/ \E k \in Keys, delta \in IncDeltas : CallInc(p, k, delta)
        \/ \E k \in Keys : CallGet(p, k)
        \/ ComputeLock(p)
        \/ ComputeRead(p)
        \/ ComputeStore(p)
        \/ GetRLock(p)
        \/ GetRead(p)

SpecInc == InitCounter /\ [][NextInc]_vars

\* SpecKV: the server: handlers of PUT, GET and DELETE requests run
\* concurrently with each other and with the expiry worker, while time passes.
InitKV == InitMap("StoredValue")

NextKV ==
    \/ Tick
    \/ \E p \in Procs :
        \/ \E k \in KVKeys, body \in Bodies : PutBegin(p, k, body)
        \/ PutEnd(p)
        \/ \E k \in KVKeys : GetBegin(p, k)
        \/ GetCheck(p)
        \/ GetExpiredEnd(p)
        \/ \E k \in KVKeys : DelBegin(p, k)
        \/ DelEnd(p)
    \/ \E p \in AllProcs :
        \/ SweepBegin(p)
        \/ SweepCollected(p)
        \/ SweepDelete(p)
        \/ SweepEnd(p)
        \/ SetLock(p)
        \/ SetWrite(p)
        \/ GetRLock(p)
        \/ GetRead(p)
        \/ DeleteLock(p)
        \/ DeleteWrite(p)
        \/ RangeRLock(p)
        \/ RangeVisit(p)
        \/ RangeRUnlock(p)

SpecKV == InitKV /\ [][NextKV]_vars

\* SpecTTL: PUT requests with every kind of ttl_seconds, GET requests and
\* the expiry worker, concurrently, while time passes.
NextTTL ==
    \/ Tick
    \/ \E p \in Procs :
        \/ \E k \in KVKeys, body \in PutBodies : PutBegin(p, k, body)
        \/ PutEnd(p)
        \/ \E k \in KVKeys : GetBegin(p, k)
        \/ GetCheck(p)
        \/ GetExpiredEnd(p)
    \/ \E p \in AllProcs :
        \/ SweepBegin(p)
        \/ SweepCollected(p)
        \/ SweepDelete(p)
        \/ SweepEnd(p)
        \/ SetLock(p)
        \/ SetWrite(p)
        \/ GetRLock(p)
        \/ GetRead(p)
        \/ DeleteLock(p)
        \/ DeleteWrite(p)
        \/ RangeRLock(p)
        \/ RangeVisit(p)
        \/ RangeRUnlock(p)

SpecTTL == InitKV /\ [][NextTTL]_vars

\* SpecSweep: PUT requests and sweep cycles while time passes, no request
\* running while a cycle runs and no cycle starting while a request runs.
NextSweep ==
    \/ Tick
    \/ /\ hpc[Sweeper] = "none"
       /\ \E p \in Procs :
            \/ \E k \in Keys, body \in Bodies : PutBegin(p, k, body)
            \/ PutEnd(p)
            \/ SetLock(p)
            \/ SetWrite(p)
    \/ /\ \A q \in Procs : hpc[q] = "none"
       /\ \/ SweepBegin(Sweeper)
          \/ SweepCollected(Sweeper)
          \/ SweepDelete(Sweeper)
          \/ SweepEnd(Sweeper)
          \/ RangeRLock(Sweeper)
          \/ RangeVisit(Sweeper)
          \/ RangeRUnlock(Sweeper)
          \/ DeleteLock(Sweeper)
          \/ DeleteWrite(Sweeper)

SpecSweep == InitKV /\ [][NextSweep]_vars

\* SpecFair: a CounterMap[string] whose callers call Inc and Get, or the
\* server's ConcurrentMap[string, StoredValue] whose callers call every
\* method while the expiry worker runs its cycles; the Go scheduler lets
\* every goroutine that can take a step take one eventually.
FairValue == [Data |-> <<"v">>, HasTTL |-> TRUE, ExpiresAt |-> 0 - 1]

InitFair == \E t \in {"int64", "StoredValue"} : InitMap(t)

CallFair(p) ==
    \/ \E k \in KVKeys : CallGet(p, k)
    \/ /\ vtype = "int64"
       /\ \E k \in KVKeys : CallInc(p, k, Int64(1))
    \/ /\ vtype = "StoredValue"
       /\ \/ \E k \in KVKeys : CallSet(p, k, FairValue)
          \/ \E k \in KVKeys : CallDelete(p, k)
          \/ \E k \in KVKeys : CallLoadOrStore(p, k, FairValue)
          \/ \E k \in KVKeys : CallCompute(p, k, [kind |-> "toggle", arg |-> FairValue])
          \/ CallLen(p)
          \/ CallRange(p, [kind |-> "all", arg |-> NoKey])

StepFair(p) ==
    \/ KeyStep(p)
    \/ LenRLock(p)
    \/ LenRead(p)
    \/ RangeRLock(p)
    \/ RangeVisit(p)
    \/ RangeRUnlock(p)
    \/ SweepCollected(p)
    \/ SweepDelete(p)
    \/ SweepEnd(p)

NextFair ==
    \/ \E p \in Procs : CallFair(p)
    \/ vtype = "StoredValue" /\ SweepBegin(Sweeper)
    \/ \E p \in AllProcs : StepFair(p)

SpecFair ==
    InitFair /\ [][NextFair]_vars /\ \A p \in AllProcs : WF_vars(StepFair(p))

\* SpecRange: goroutines call Range, with visitors that stop and visitors
\* that do not, while Set and Delete run.
NextRange ==
    \E p \in Procs :
        \/ \E k \in Keys, v \in Vals : CallSet(p, k, v)
        \/ \E k \in Keys : CallDelete(p, k)
        \/ \E f \in Visitors : CallRange(p, f)
        \/ SetLock(p)
        \/ SetWrite(p)
        \/ DeleteLock(p)
        \/ DeleteWrite(p)
        \/ RangeRLock(p)
        \/ RangeVisit(p)
        \/ RangeRUnlock(p)

SpecRange == Init /\ [][NextRange]_vars

\* a program that constructs its map, and uses the map it got
NextNew ==
    \E p \in Procs :
        \/ \E n \in BucketCounts, hasher \in Hashers : CallNew(p, n, hasher)
        \/ NewStep(p)
        \/ vtype # "none" /\ \E k \in Keys, v \in Vals : CallSet(p, k, v)
        \/ vtype # "none" /\ \E k \in Keys : CallDelete(p, k)
        \/ vtype # "none" /\ CallLen(p)
        \/ SetLock(p)
        \/ SetWrite(p)
        \/ DeleteLock(p)
        \/ DeleteWrite(p)
        \/ LenRLock(p)
        \/ LenRead(p)
SpecNew == InitNew /\ [][NextNew]_vars

\* SpecAll: every method of the map, Range with a visitor that never stops.
NextAll ==
    \E p \in Procs :
        \/ KeyCall(p)
        \/ KeyStep(p)
        \/ CallLen(p)
        \/ LenRLock(p)
        \/ LenRead(p)
        \/ CallRange(p, [kind |-> "all", arg |-> NoKey])
        \/ RangeRLock(p)
        \/ RangeVisit(p)
        \/ RangeRUnlock(p)

SpecAll == Init /\ [][NextAll]_vars

\* ------------------------------------------------------------ observations
\* what Get(k) finds now
Current(k) == Lookup(buckets[BucketOf[k]], k)
\* what Get(k) finds after the step
CurrentNext(k) == Lookup(buckets'[BucketOf[k]], k)
\* the number of keys present in the map
Size ==
    LET RECURSIVE sum(_)
        sum(i) == IF i = NumShards THEN 0
                  ELSE Cardinality(DOMAIN buckets[i]) + sum(i + 1)
    IN  sum(0)
\* goroutine p takes the step that leaves the place at of its method
Leaves(p, at) == pc[p] = at /\ pc'[p] # at
\* goroutine p takes the step from the place at that returns
Returns(p, at) == pc[p] = at /\ pc'[p] = "idle"

\* ---------------------------------------------------------------------- C1
\* C1: a Get(k) that reads while the last mutation of k that took effect is
\* a Set(k, v) returns (v, true); and the write of Set(k, v) leaves k
\* holding v whatever k held before.
C1_SetThenGet ==
    [][\A p \in Procs :
         /\ (Returns(p, "Get_read") /\ last[call[p].k].kind = "Set")
               => (ret'[p].val = last[call[p].k].val /\ ret'[p].ok)
         /\ Returns(p, "Set_write")
               => CurrentNext(call[p].k) = <<call[p].v, TRUE>>]_vars

\* a Get returned the value of a Set that overwrote an earlier mutation of
\* the same key
C1_Witness ==
    \E p \in Procs :
        /\ pc[p] = "idle" /\ ret[p].op = "Get" /\ ret[p].ok
        /\ last[ret[p].k].kind = "Set" /\ ret[p].val = last[ret[p].k].val
        /\ version >= 2
        /\ \A k \in Keys \ {ret[p].k} : last[k].kind = "none"

\* ---------------------------------------------------------------------- C7
\* C7: LoadOrStore(k, v) on a present key returns (current value, true) and
\* changes no bucket; on an absent key it stores v and returns (v, false).
\* So while the last mutation of k is a LoadOrStore insertion of v1, a
\* LoadOrStore(k, v2) returns (v1, true) and a Get(k) returns (v1, true).
C7_LoadOrStore ==
    [][\A p \in Procs :
         LET k == call[p].k
             cur == Current(k)
         IN
         /\ (pc[p] = "LoadOrStore_check" /\ pc'[p] # pc[p] /\ cur[2])
               => /\ pc'[p] = "idle"
                  /\ ret'[p].val = cur[1] /\ ret'[p].ok
                  /\ buckets' = buckets
         /\ (pc[p] = "LoadOrStore_check" /\ pc'[p] # pc[p] /\ ~cur[2])
               => pc'[p] = "LoadOrStore_store" /\ buckets' = buckets
         /\ Returns(p, "LoadOrStore_store")
               => /\ ~cur[2]
                  /\ ret'[p].val = call[p].v /\ ~ret'[p].ok
                  /\ CurrentNext(k) = <<call[p].v, TRUE>>
         /\ ((Returns(p, "LoadOrStore_check") \/ Returns(p, "LoadOrStore_store")
                 \/ Returns(p, "Get_read"))
               /\ last[k].kind = "LoadOrStore")
               => /\ ret'[p].val = last[k].val /\ ret'[p].ok
                  /\ CurrentNext(k) = <<last[k].val, TRUE>>]_vars

\* a second LoadOrStore of k returned (v1, true), v1 the value the first
\* LoadOrStore inserted, and k still holds v1
C7_Witness ==
    \E p \in Procs :
        /\ pc[p] = "idle" /\ ret[p].op = "LoadOrStore" /\ ret[p].ok
        /\ last[ret[p].k].kind = "LoadOrStore"
        /\ ret[p].val = last[ret[p].k].val
        /\ version = 1 /\ nops >= 2
        /\ Current(ret[p].k) = <<ret[p].val, TRUE>>

\* ---------------------------------------------------------------------- C8
\* C8: a Get(k) that reads while the last mutation of k is a Delete(k)
\* returns found = false; a Delete of an absent key returns and leaves the
\* map of every bucket as it was.
C8_Delete ==
    [][\A p \in Procs :
         /\ (Returns(p, "Get_read") /\ last[call[p].k].kind = "Delete")
               => ~ret'[p].ok
         /\ Leaves(p, "Delete_write")
               => /\ pc'[p] = "idle"
                  /\ ~CurrentNext(call[p].k)[2]
                  /\ \A k \in Keys \ {call[p].k} : CurrentNext(k) = Current(k)
                  /\ ~Current(call[p].k)[2] => (buckets' = buckets /\ Size' = Size)]_vars

\* a Get missed a key that was stored and then deleted, while another key
\* is still there
C8_Witness ==
    \E p \in Procs :
        /\ pc[p] = "idle" /\ ret[p].op = "Get" /\ ~ret[p].ok
        /\ last[ret[p].k].kind = "Delete"
        /\ version >= 2
        /\ Size >= 1

\* --------------------------------------------------------------------- C10
\* C10: Compute(k, fn) calls fn once, with (current value, true) if k is
\* present and (zero, false) if not; if fn answers keep = false, k is absent
\* afterwards; if it answers keep = true, k holds the value fn returned.
C10_Compute ==
    [][\A p \in Procs :
         LET k == call[p].k
             cur == Current(k)
             f == ApplyFn(call[p].fn, cur[1], cur[2])
         IN
         Leaves(p, "Compute_store")
            => /\ pc'[p] = "idle"
               /\ ret'[p].fncalls = 1
               /\ ret'[p].old = cur[1] /\ ret'[p].exists = cur[2]
               /\ ~cur[2] => ret'[p].old = ZeroV
               /\ ret'[p].keep = f.keep
               /\ f.keep => CurrentNext(k) = <<f.val, TRUE>>
               /\ ~f.keep => ~CurrentNext(k)[2]]_vars

\* a Compute whose fn answered keep = false removed a present key, although
\* fn returned a value other than zero
C10_Witness ==
    \E p \in Procs :
        /\ pc[p] = "idle" /\ ret[p].op = "Compute"
        /\ ret[p].exists /\ ~ret[p].keep /\ ret[p].val # ZeroV
        /\ ret[p].fncalls = 1
        /\ ~Current(ret[p].k)[2]
        /\ last[ret[p].k].kind = "Compute"

\* ---------------------------------------------------------------------- C9
\* the keys some bucket holds
KeysPresent == {k \in Keys : \E i \in Buckets : k \in DOMAIN buckets[i]}

\* C9: a Len during which no mutation took effect returns the number of
\* distinct keys present, which is the sum of the buckets' sizes and the
\* number of keys whose last Set, Delete, LoadOrStore or Compute left them
\* present.
C9_Len ==
    \A p \in Procs :
        (pc[p] = "idle" /\ ret[p].op = "Len" /\ ret[p].ver0 = version)
           => /\ ret[p].n = Cardinality(KeysPresent)
              /\ ret[p].n = Size
              /\ ret[p].n = Cardinality({k \in Keys : last[k].ok})

\* after two insertions into different buckets and nothing else, Len
\* returned 2
C9_Witness ==
    \E p \in Procs :
        /\ pc[p] = "idle" /\ ret[p].op = "Len" /\ ret[p].ver0 = version
        /\ ret[p].n = 2 /\ version = 2
        /\ \A i \in Buckets : Cardinality(DOMAIN buckets[i]) <= 1

\* ---------------------------------------------------------------------- C5
\* goroutine q stands at a read or a write of the map of bucket i
Accessing(q, i) ==
    \/ /\ pc[q] \in {"Set_write", "Get_read", "Delete_write", "LoadOrStore_check",
                     "LoadOrStore_store", "Compute_read", "Compute_store"}
       /\ call[q].idx = i
    \/ /\ pc[q] \in {"Len_read", "Range_visit"}
       /\ call[q].i = i

\* C5: from Compute's read of k to its store or delete, no other goroutine
\* stands at a read or a write of that bucket's map, and what Compute read
\* (and hands to fn) is still what the bucket holds for k.
C5_ComputeAtomic ==
    \A p \in Procs :
        pc[p] = "Compute_store"
           => /\ Lookup(buckets[call[p].idx], call[p].k) = <<call[p].old, call[p].exists>>
              /\ \A q \in Procs \ {p} : ~Accessing(q, call[p].idx)

\* a Compute has read a present key and not yet written, while another
\* goroutine waits for the same bucket's lock to work on a different key
C5_Witness ==
    \E p \in Procs, q \in Procs :
        /\ pc[p] = "Compute_store" /\ call[p].exists
        /\ pc[q] \in {"Set_lock", "Get_rlock", "Delete_lock", "LoadOrStore_lock",
                      "Compute_lock"}
        /\ call[q].idx = call[p].idx /\ call[q].k # call[p].k

\* ---------------------------------------------------------------------- C6
\* the goroutines whose last call was a LoadOrStore of k that has returned
Loaded(k) ==
    {p \in Procs : pc[p] = "idle" /\ ret[p].op = "LoadOrStore" /\ ret[p].k = k}

\* C6: when goroutines call only LoadOrStore on an empty map, every key is
\* inserted at most once, and exactly once if a call on it has returned
\* (so exactly one call returns loaded = false); a call that returns
\* loaded = false returns its own value; every call on k returns the value
\* that was inserted, and the map holds it.
C6_LoadOrStoreAtomic ==
    /\ version = Cardinality(KeysPresent)
    /\ \A k \in Keys :
         /\ \A p \in Loaded(k) :
              /\ Current(k) = <<ret[p].val, TRUE>>
              /\ last[k] = [kind |-> "LoadOrStore", val |-> ret[p].val, ok |-> TRUE]
         /\ \A p \in Loaded(k), q \in Loaded(k) :
              /\ ret[p].val = ret[q].val
              /\ (p # q) => (ret[p].ok \/ ret[q].ok)

\* two goroutines raced on one key: one call returned loaded = false, the
\* other returned the same value with loaded = true, after a single insertion
C6_Witness ==
    \E k \in Keys : \E p \in Loaded(k), q \in Loaded(k) :
        /\ ~ret[p].ok /\ ret[q].ok
        /\ ret[p].val = ret[q].val
        /\ version = 1 /\ nops = 2

\* ---------------------------------------------------------------------- C4
\* what k holds as a counter
Counter(k) == IF Current(k)[2] THEN Current(k)[1] ELSE Int64(0)

\* C4: under any interleaving of Inc calls no update is lost: every key an
\* Inc has touched holds the sum of the deltas of the Incs that took effect
\* on it, a Get returns that sum, each Inc returns the value its own
\* increment stored (the value before plus its delta), and two Incs of one
\* key never return the same value.
C4_IncNoLostUpdate ==
    /\ [](\A k \in Keys :
            /\ Current(k) = IF last[k].kind = "none" THEN <<Int64(0), FALSE>>
                            ELSE <<added[k], TRUE>>
            /\ \A p \in Procs, q \in Procs :
                 (/\ p # q /\ pc[p] = "idle" /\ pc[q] = "idle"
                  /\ ret[p].op = "Inc" /\ ret[q].op = "Inc"
                  /\ ret[p].k = k /\ ret[q].k = k)
                    => ret[p].val # ret[q].val)
    /\ [][\A p \in Procs :
            /\ Leaves(p, "Compute_store")
                 => /\ pc'[p] = "idle"
                    /\ ret'[p].val = Add64(Counter(call[p].k), call[p].fn.arg)
                    /\ CurrentNext(call[p].k) = <<ret'[p].val, TRUE>>
            /\ (Returns(p, "Get_read") /\ last[call[p].k].kind # "none")
                 => (ret'[p].val = added[call[p].k] /\ ret'[p].ok)]_vars

\* both goroutines have incremented one key, one returned 1 and the other
\* 1 + its delta, and the key holds the sum of the three increments made
C4_Witness ==
    \E k \in Keys, p \in Procs, q \in Procs :
        /\ p # q /\ pc[p] = "idle" /\ pc[q] = "idle"
        /\ ret[p].op = "Inc" /\ ret[q].op = "Inc" /\ ret[p].k = k /\ ret[q].k = k
        /\ version = 3
        /\ Current(k) = <<added[k], TRUE>>
        /\ added[k] \notin {Int64(n) : n \in 0..2}
        /\ ret[p].val = added[k]

\* --------------------------------------------------------------------- C11
\* C11: Inc(k, delta) on an absent key stores and returns delta; on a present
\* key it stores and returns old + delta modulo 2^64 in two's complement, so
\* math.MaxInt64 + 1 is math.MinInt64 and math.MinInt64 + (-1) is
\* math.MaxInt64; the key is present afterwards, and a Get(k) that reads
\* while that Inc is the last mutation of k returns (the value Inc returned,
\* true).
C11_IncWraps ==
    [][\A p \in Procs :
         LET k == call[p].k
             cur == Current(k)
             delta == call[p].fn.arg
         IN
         /\ Leaves(p, "Compute_store")
               => /\ pc'[p] = "idle" /\ ret'[p].op = "Inc"
                  /\ ~cur[2] => ret'[p].val = delta
                  /\ cur[2] => ret'[p].val = Add64(cur[1], delta)
                  /\ (cur[2] /\ cur[1] = MaxInt64 /\ delta = Int64(1))
                        => ret'[p].val = MinInt64
                  /\ (cur[2] /\ cur[1] = MinInt64 /\ delta = Int64(-1))
                        => ret'[p].val = MaxInt64
                  /\ (cur[2] /\ cur[1] = Int64(1) /\ delta = Int64(-1))
                        => ret'[p].val = Int64(0)
                  /\ CurrentNext(k) = <<ret'[p].val, TRUE>>
                  /\ last'[k] = [kind |-> "Compute", val |-> ret'[p].val, ok |-> TRUE]
         /\ Returns(p, "Get_read") /\ last[k].kind = "Compute"
               => ret'[p].val = last[k].val /\ ret'[p].ok]_vars

\* a Get returned (math.MinInt64, true) after Inc(k, math.MaxInt64) and
\* Inc(k, 1), or Inc(k, 1) and Inc(k, math.MaxInt64), on the absent key k
C11_Witness ==
    \E p \in Procs :
        /\ pc[p] = "idle" /\ ret[p].op = "Get" /\ ret[p].ok
        /\ ret[p].val = MinInt64
        /\ last[ret[p].k] = [kind |-> "Compute", val |-> MinInt64, ok |-> TRUE]
        /\ version = 2 /\ nops = 3

\* --------------------------------------------------------------------- C12
\* C12: while a sweep cycle runs with no request running, every step that
\* changes the map removes one key whose record has a deadline before the
\* time the cycle sampled at its start and leaves every other key with its
\* record; and when the cycle ends no key with such a record is left. So
\* the cycle removes exactly the keys past their deadline at its start.
C12_SweepCycle ==
    [][/\ (hpc[Sweeper] # "none" /\ buckets' # buckets)
            => \E k \in Keys :
                 /\ Current(k)[2] /\ ~CurrentNext(k)[2]
                 /\ Current(k)[1].HasTTL
                 /\ Current(k)[1].ExpiresAt < h[Sweeper].now
                 /\ \A j \in Keys \ {k} : CurrentNext(j) = Current(j)
       /\ (hpc[Sweeper] = "sweep_delete" /\ hpc'[Sweeper] = "none")
            => \A k \in Keys :
                 Current(k)[2]
                    => ~(Current(k)[1].HasTTL
                           /\ Current(k)[1].ExpiresAt < h[Sweeper].now)]_vars

\* a cycle has ended: it removed a key, and left a key whose deadline had
\* not passed when the cycle started
C12_Witness ==
    /\ hpc[Sweeper] = "none" /\ h[Sweeper].done = "sweep"
    /\ \E k1 \in Keys, k2 \in Keys :
         /\ last[k1].kind = "Delete" /\ ~Current(k1)[2]
         /\ Current(k2)[2] /\ Current(k2)[1].HasTTL
         /\ Current(k2)[1].ExpiresAt >= now

\* --------------------------------------------------------------------- C13
\* C13: a PUT whose ttl_seconds is absent or not > 0 writes a record with
\* HasTTL = false, and a PUT whose ttl_seconds is > 0 writes a record with
\* HasTTL = true and ExpiresAt = the time of the PUT + ttl_seconds; a GET
\* that read a record with HasTTL = false answers with it whatever the
\* time, and the expiry worker's visitor collects no key whose record has
\* HasTTL = false.
C13_TTLRecord ==
    [][/\ \A p \in Procs :
            /\ (hpc[p] = "none" /\ hpc'[p] = "put")
                  => LET ttl == h'[p].ttl
                         v == call'[p].v
                     IN  IF ttl[8] < 128 /\ ttl # Int64(0)
                         THEN v.HasTTL /\ Int64(v.ExpiresAt - now) = ttl
                         ELSE ~v.HasTTL
            /\ (hpc[p] = "get" /\ hpc'[p] # "get" /\ ret[p].ok /\ ~ret[p].val.HasTTL)
                  => (hpc'[p] = "none" /\ h'[p].found)
       /\ (pc[Sweeper] = "Range_visit"
             /\ Len(call'[Sweeper].acc) > Len(call[Sweeper].acc))
            => Current(call'[Sweeper].acc[Len(call'[Sweeper].acc)])[1].HasTTL]_vars

\* --------------------------------------------------------------------- C14
\* C14: the passing of time changes no bucket; a key leaves the map only by
\* the Delete of a GET's lazy expiry, of a sweep cycle or of a DELETE
\* request; the map's own Get returns a record that is present, past its
\* deadline or not; and when a GET that found the record past its deadline
\* answers not-found and no Set of the key has taken effect since its
\* Delete, the key is absent from the map.
C14_TimeAlone ==
    [][/\ now' # now => buckets' = buckets
       /\ buckets' # buckets
            => \A k \in Keys :
                 (Current(k)[2] /\ ~CurrentNext(k)[2])
                    => \E p \in AllProcs :
                         /\ Returns(p, "Delete_write") /\ call[p].k = k
                         /\ hpc[p] \in {"get_expired", "sweep_delete", "del"}
       /\ \A p \in Procs :
            /\ (Returns(p, "Get_read") /\ Current(call[p].k)[2])
                  => (ret'[p].ok /\ ret'[p].val = Current(call[p].k)[1])
            /\ (hpc[p] = "get_expired" /\ hpc'[p] = "none"
                  /\ last[h[p].k].kind # "Set")
                  => (~h'[p].found /\ ~Current(h[p].k)[2])]_vars

\* the map's Get has returned a record whose deadline has passed, which is
\* still in the map: nothing has been deleted yet
C14_Witness ==
    \E p \in Procs :
        /\ hpc[p] = "get" /\ pc[p] = "idle" /\ ret[p].ok
        /\ ret[p].val.HasTTL /\ ret[p].val.ExpiresAt < now
        /\ Current(h[p].k) = <<ret[p].val, TRUE>>
        /\ \A k \in Keys : last[k].kind # "Delete"

\* --------------------------------------------------------------------- C15
\* the shard locks goroutine p holds
Held(p) == {i \in Buckets : mu[i].writer = p \/ p \in mu[i].readers}

\* C15: a goroutine holds at most one shard lock, and none when it is in no
\* method; while a method or a sweep cycle is under way some goroutine can
\* take a step (no deadlock); and under fair scheduling every method call
\* returns and every sweep cycle ends: no goroutine stays inside a method
\* for ever, and the expiry worker does not stay inside a cycle for ever.
C15_Progress ==
    /\ [](\A p \in AllProcs :
            /\ Cardinality(Held(p)) <= 1
            /\ pc[p] = "idle" => Held(p) = {})
    /\ []((\E p \in AllProcs : pc[p] # "idle" \/ hpc[p] # "none")
            => \E p \in AllProcs : ENABLED StepFair(p))
    /\ \A p \in AllProcs : []<>(pc[p] = "idle")
    /\ []<>(hpc[Sweeper] = "none")

\* one goroutine waits for the exclusive lock of a shard while the expiry
\* worker holds its shared lock in Range and another goroutine is inside a
\* method too
C15_Witness ==
    \E p \in Procs, q \in Procs :
        /\ p # q
        /\ pc[p] \in {"Set_lock", "Delete_lock", "LoadOrStore_lock", "Compute_lock"}
        /\ pc[Sweeper] = "Range_visit" /\ call[Sweeper].i = call[p].idx
        /\ Sweeper \in mu[call[p].idx].readers
        /\ pc[q] # "idle"

\* --------------------------------------------------------------------- C16
\* goroutine q stands at a read of the map of bucket i
Reading(q, i) ==
    \/ pc[q] \in {"Get_read", "LoadOrStore_check", "Compute_read"} /\ call[q].idx = i
    \/ pc[q] \in {"Len_read", "Range_visit"} /\ call[q].i = i
\* goroutine q stands at a write of the map of bucket i
Writing(q, i) ==
    /\ pc[q] \in {"Set_write", "Delete_write", "LoadOrStore_store", "Compute_store"}
    /\ call[q].idx = i

\* C16: a goroutine at a read of a bucket's map holds that bucket's lock,
\* shared or exclusive; a goroutine at a write holds it exclusively; a lock
\* held exclusively has no reader; so no goroutine stands at a write of a
\* bucket's map while another stands at a read or a write of it.
C16_NoDataRace ==
    \A i \in Buckets :
        /\ mu[i].writer # NoProc => mu[i].readers = {}
        /\ \A q \in Procs :
             /\ Reading(q, i) => (mu[i].writer = q \/ q \in mu[i].readers)
             /\ Writing(q, i) => mu[i].writer = q
             /\ Writing(q, i)
                  => \A r \in Procs \ {q} : ~Reading(r, i) /\ ~Writing(r, i)

\* two goroutines read the map of one bucket at the same time, one in Get
\* and one in Len or Range, both holding its lock shared
C16_Witness ==
    \E p \in Procs, q \in Procs, i \in Buckets :
        /\ p # q
        /\ pc[p] = "Get_read" /\ call[p].idx = i
        /\ pc[q] \in {"Len_read", "Range_visit"} /\ call[q].i = i
        /\ mu[i].readers = {p, q}

\* --------------------------------------------------------------------- C17
\* the keys a mutation has taken effect on
KeysUsed == {k \in Keys : last[k].kind # "none"}

\* C17: a Len that runs while Set, Delete, LoadOrStore and Compute run
\* returns a number that is at least 0 and at most the number of distinct
\* keys used on the map so far, and its running total stays within these
\* limits; a Len during which no mutation takes effect returns the number
\* of keys present.
C17_LenBounds ==
    [][\A p \in Procs :
         /\ Leaves(p, "Len_read")
               => LET n == IF pc'[p] = "idle" THEN ret'[p].n ELSE call'[p].total IN
                  /\ n >= 0
                  /\ n <= Cardinality(KeysUsed)
                  /\ n >= call[p].total
         /\ (Returns(p, "Len_read") /\ call[p].ver0 = version)
               => ret'[p].n = Cardinality(KeysPresent)]_vars

\* a Len returned 1 although the map is empty: the key it counted was
\* removed, by the one mutation that took effect while it ran
C17_Witness ==
    \E p \in Procs :
        /\ pc[p] = "idle" /\ ret[p].op = "Len"
        /\ ret[p].n = 1 /\ Size = 0
        /\ ret[p].ver0 + 1 = version
        /\ Cardinality(KeysUsed) = 1

\* --------------------------------------------------------------------- C18
\* the keys of the pairs a visitor has recorded
SeenKeys(seen) == {seen[j][1] : j \in 1..Len(seen)}

\* C18: the visitor call that returns the stop signal is the last one: after
\* it Range returns at once, having released the shared lock of the bucket
\* it was in, so the call for the stop key is the last pair recorded and no
\* Range goes on after visiting its stop key; a goroutine that has returned
\* from Range, early or not, holds no bucket lock, and when no goroutine is
\* inside a method every bucket is unlocked.
C18_RangeStop ==
    /\ [](\A p \in Procs :
            /\ pc[p] = "idle" => Held(p) = {}
            /\ (pc[p] \in {"Range_rlock", "Range_visit"} /\ call[p].fn.kind = "stopAt")
                  => call[p].fn.arg \notin SeenKeys(call[p].acc)
            /\ (pc[p] = "idle" /\ ret[p].op = "Range" /\ ~ret[p].ok)
                  => /\ ret[p].seen # <<>>
                     /\ \A j \in 1..Len(ret[p].seen) :
                          (ret[p].seen[j][1] = ret[p].seen[Len(ret[p].seen)][1])
                             <=> (j = Len(ret[p].seen)))
    /\ []((\A p \in Procs : pc[p] = "idle") => \A i \in Buckets : mu[i] = Unlocked)
    /\ [][\A p \in Procs :
            LET c == call[p]
                rec == IF pc'[p] = "idle" THEN ret'[p].seen ELSE call'[p].acc
            IN
            (pc[p] = "Range_visit" /\ c.fn.kind = "stopAt"
               /\ Len(rec) = Len(c.acc) + 1 /\ rec[Len(rec)][1] = c.fn.arg)
              => /\ pc'[p] = "idle" /\ ~ret'[p].ok
                 /\ p \notin mu'[c.i].readers
                 /\ \A i \in Buckets : mu'[i].writer # p /\ p \notin mu'[i].readers]_vars

\* a Range has returned early after one visitor call, although two keys
\* were present; every bucket is unlocked
C18_Witness ==
    \E p \in Procs :
        /\ pc[p] = "idle" /\ ret[p].op = "Range" /\ ~ret[p].ok
        /\ Len(ret[p].seen) = 1
        /\ Size = 2 /\ ret[p].ver0 = version
        /\ \A i \in Buckets : mu[i] = Unlocked

\* --------------------------------------------------------------------- C19
\* the pairs a visitor has recorded, as a set
SeenPairs(seen) == {seen[j] : j \in 1..Len(seen)}
\* the pairs the map holds
Contents == {<<k, Current(k)[1]>> : k \in KeysPresent}
\* the visitor was called for the buckets in increasing order and at most
\* once for a key
InOrderOnce(seen) ==
    \A j1 \in 1..Len(seen), j2 \in 1..Len(seen) :
        j1 < j2 => /\ seen[j1][1] # seen[j2][1]
                   /\ BucketOf[seen[j1][1]] <= BucketOf[seen[j2][1]]

\* C19: a Range calls its visitor for the buckets in increasing index order
\* and at most once for a key; while it is in a bucket, every key of that
\* bucket is either still to be visited or has been visited once with the
\* value it holds, and the bucket does not change, so that when Range moves
\* on every key of the bucket has been visited with its value; and a Range
\* that was not stopped and during which no mutation took effect has
\* visited exactly the pairs the map holds.
C19_RangeVisits ==
    /\ [](\A p \in Procs :
            /\ pc[p] \in {"Range_rlock", "Range_visit"}
                  => /\ InOrderOnce(call[p].acc)
                     /\ \A j \in 1..Len(call[p].acc) :
                          BucketOf[call[p].acc[j][1]] <= call[p].i
            /\ pc[p] = "Range_visit"
                  => \A k \in DOMAIN buckets[call[p].i] :
                       (k \in call[p].pending)
                          <=> (<<k, buckets[call[p].i][k]>> \notin SeenPairs(call[p].acc))
            /\ (pc[p] = "idle" /\ ret[p].op = "Range")
                  => /\ InOrderOnce(ret[p].seen)
                     /\ (ret[p].ok /\ ret[p].ver0 = version)
                           => SeenPairs(ret[p].seen) = Contents)
    /\ [][\A p \in Procs :
            /\ pc[p] = "Range_visit" => buckets'[call[p].i] = buckets[call[p].i]
            /\ (pc[p] = "Range_visit" /\ pc'[p] # "Range_visit" /\ call[p].pending = {})
                  => \A k \in DOMAIN buckets[call[p].i] :
                       <<k, buckets[call[p].i][k]>>
                          \in SeenPairs(IF pc'[p] = "idle" THEN ret'[p].seen
                                        ELSE call'[p].acc)]_vars

\* a Range that was not stopped has visited one key, with the value it
\* holds, while a second key was inserted into a bucket it had passed
C19_Witness ==
    \E p \in Procs :
        /\ pc[p] = "idle" /\ ret[p].op = "Range" /\ ret[p].ok
        /\ Len(ret[p].seen) = 1 /\ ret[p].seen[1] \in Contents
        /\ Size = 2 /\ version = ret[p].ver0 + 1

\* --------------------------------------------------------------------- C20
\* a goroutine that called New has returned from it with the map
NewReturned(p) == pc[p] = "New" /\ pc'[p] = "idle"

\* C20: New(n, hasher) with n <= 0 or a nil hasher panics: the goroutine
\* never returns and the program has no map, then or later. New(n, hasher)
\* with n > 0 and a hasher returns a map of exactly n buckets, every one
\* empty and unlocked, whose Len() is 0 until the first mutation. The
\* number of buckets of a map never changes.
C20_New ==
    /\ [][\A p \in AllProcs :
            /\ pc[p] = "New" /\ (call[p].numBuckets <= 0 \/ call[p].hasher = "nil")
               => pc'[p] = "panic" /\ vtype' = "none" /\ buckets' = NewBuckets(0)
            /\ NewReturned(p)
               => /\ call[p].numBuckets > 0 /\ call[p].hasher # "nil"
                  /\ vtype' # "none"
                  /\ DOMAIN buckets' = 0..(call[p].numBuckets - 1)
                  /\ DOMAIN mu' = DOMAIN buckets'
                  /\ \A i \in DOMAIN buckets' :
                        buckets'[i] = EmptyMap /\ mu'[i] = Unlocked
            /\ vtype # "none" => DOMAIN buckets' = DOMAIN buckets]_vars
    /\ []((\E p \in AllProcs : pc[p] = "panic")
             => vtype = "none" /\ \A p \in AllProcs : ~ENABLED NewStep(p))
    /\ [](\A p \in AllProcs :
             ret[p].op = "Len" /\ version = 0 => vtype # "none" /\ ret[p].n = 0)

\* New(2, nil) has panicked, and the program has no map
C20_Witness ==
    \E p \in AllProcs :
        /\ pc[p] = "panic"
        /\ call[p].numBuckets = NumBuckets
        /\ call[p].hasher = "nil"
        /\ vtype = "none"

\* --------------------------------------------------------------------- C21
\* the key of the call goroutine p makes, or is in, over a step
KeyOfStep(p) == IF pc[p] = "idle" THEN call'[p].k ELSE call[p].k

\* C21: every key a bucket i holds has fnv64a(key) % len(buckets) = i, so no
\* key is in two buckets; and a step of a Get, Set, Delete, LoadOrStore or
\* Compute of key k changes the map and the lock of no bucket but bucket
\* fnv64a(k) % len(buckets), and holds no other bucket's lock.
C21_Routing ==
    /\ [](\A i \in Buckets : \A k \in DOMAIN buckets[i] : bucketIndexForKey(k) = i)
    /\ [](\A k \in Keys : Cardinality({i \in Buckets : k \in DOMAIN buckets[i]}) <= 1)
    /\ [](\A p \in Procs : \A i \in Buckets :
             p \in mu[i].readers \/ mu[i].writer = p
                => i = bucketIndexForKey(call[p].k))
    /\ [][\A p \in Procs :
            pc'[p] # pc[p]
               => \A i \in Buckets :
                     buckets'[i] # buckets[i] \/ mu'[i] # mu[i]
                        => i = bucketIndexForKey(KeyOfStep(p))]_vars

\* both buckets of a map of two hold a key, "a" in bucket 0 and "b" in
\* bucket 1, while a Compute of "c" holds the lock of bucket 0
C21_Witness ==
    /\ NumShards = 2
    /\ AllKeys[1] \in DOMAIN buckets[0]
    /\ AllKeys[3] \in DOMAIN buckets[1]
    /\ \E p \in Procs :
          /\ pc[p] = "Compute_read"
          /\ call[p].k = AllKeys[2]
          /\ mu[0].writer = p

\* --------------------------------------------------------------------- C22
\* the expiry worker takes a step
SweeperSteps ==
    \/ pc'[Sweeper] # pc[Sweeper]
    \/ call'[Sweeper] # call[Sweeper]
    \/ hpc'[Sweeper] # hpc[Sweeper]

\* C22: the expiry worker is inside Delete only in the second phase of its
\* cycle, after the cycle's Range has returned, and it holds no shard's
\* shared lock then, nor when it asks for an exclusive lock; every key it
\* deletes is one the Range collected; and in the first phase the worker is
\* inside Range alone and none of its steps, the visitor's included,
\* changes a bucket's map or takes an exclusive lock.
C22_TwoPhase ==
    /\ [](pc[Sweeper] \in {"Delete_lock", "Delete_write"}
            => /\ hpc[Sweeper] = "sweep_delete"
               /\ \A i \in Buckets : Sweeper \notin mu[i].readers)
    /\ [](hpc[Sweeper] = "sweep_delete"
            => \A i \in Buckets : Sweeper \notin mu[i].readers)
    /\ [](hpc[Sweeper] = "sweep_range"
            => /\ pc[Sweeper] \in {"Range_rlock", "Range_visit", "idle"}
               /\ (pc[Sweeper] # "idle" => call[Sweeper].op = "Range")
               /\ \A i \in Buckets : mu[i].writer # Sweeper)
    /\ [][/\ (pc[Sweeper] = "idle" /\ pc'[Sweeper] = "Delete_lock"
               => /\ hpc[Sweeper] = "sweep_delete"
                  /\ h[Sweeper].toDelete # <<>>
                  /\ call'[Sweeper].k = Head(h[Sweeper].toDelete)
                  /\ Held(Sweeper) = {})
           /\ (hpc[Sweeper] = "sweep_range" /\ hpc'[Sweeper] = "sweep_delete"
               => /\ pc[Sweeper] = "idle" /\ ret[Sweeper].op = "Range"
                  /\ h'[Sweeper].toDelete = ret[Sweeper].seen
                  /\ Held(Sweeper) = {})
           /\ (hpc[Sweeper] = "sweep_range" /\ SweeperSteps
               => /\ buckets' = buckets
                  /\ version' = version
                  /\ \A i \in Buckets : mu'[i].writer = mu[i].writer)]_vars

\* the expiry worker holds the exclusive lock of a bucket inside the first
\* Delete of a cycle that collected two keys, and no shared lock
C22_Witness ==
    /\ hpc[Sweeper] = "sweep_delete"
    /\ pc[Sweeper] = "Delete_write"
    /\ Len(h[Sweeper].toDelete) = 1
    /\ mu[call[Sweeper].idx].writer = Sweeper
    /\ \A i \in Buckets : Sweeper \notin mu[i].readers

\* --------------------------------------------------------------------- C23
\* 64-bit FNV-1a as published: the offset basis 14695981039346656037
\* (0xcbf29ce484222325) and the prime 1099511628211 (0x100000001b3)
FNVOffsetBasis == <<37, 35, 34, 132, 228, 156, 242, 203>>
FNVPrime == <<179, 1, 0, 0, 0, 1, 0, 0>>
FNV1a(s) ==
    LET RECURSIVE acc(_)
        acc(n) == IF n = 0 THEN FNVOffsetBasis
                  ELSE LET a == acc(n - 1)
                       IN  Mul64([a EXCEPT ![1] = XorByte(a[1], s[n])], FNVPrime)
    IN  acc(Len(s))

\* C23: what fnv64a returns for a string s is the 64-bit FNV-1a digest of
\* s (start from the FNV offset basis; per byte, xor it into the
\* accumulator, then multiply by the FNV prime modulo 2^64), and two calls
\* with the same string return the same digest.
C23_FNV1a ==
    /\ \A p \in Procs : ret[p].op = "fnv64a" => ret[p].hash = FNV1a(ret[p].k)
    /\ \A p \in Procs, q \in Procs :
          ret[p].op = "fnv64a" /\ ret[q].op = "fnv64a" /\ ret[p].k = ret[q].k
             => ret[p].hash = ret[q].hash

\* ---------------------------------------------------------------------- C2
\* C2: the Delete of the lazy expiry and the Deletes of the sweep remove
\* only records that are past their deadline at the moment they are removed.
C2_OnlyExpiredDestroyed ==
    [][\A p \in AllProcs :
         LET cur == Current(call[p].k) IN
         (/\ Leaves(p, "Delete_write")
          /\ hpc[p] \in {"get_expired", "sweep_delete"}
          /\ cur[2])
            => (cur[1].HasTTL /\ cur[1].ExpiresAt < now)]_vars

\* ---------------------------------------------------------------------- C3
\* C3: a GET whose expiry check finds a record with a deadline before the
\* time of the check never answers with the record: it goes on to delete
\* the key and answers not-found; it answers found only for a record it
\* read that has no deadline or whose deadline is not before the check.
C3_NoExpiredRead ==
    [][\A p \in Procs :
         LET v == ret[p].val IN
         /\ (hpc[p] = "get" /\ hpc'[p] # "get"
               /\ ret[p].ok /\ v.HasTTL /\ v.ExpiresAt < now)
               => hpc'[p] = "get_expired"
         /\ (hpc[p] = "get_expired" /\ hpc'[p] # "get_expired")
               => (hpc'[p] = "none" /\ h'[p].done = "get" /\ ~h'[p].found)
         /\ (hpc[p] = "get" /\ hpc'[p] = "none" /\ h'[p].found)
               => (ret[p].ok /\ ~(v.HasTTL /\ v.ExpiresAt < now))]_vars

\* a GET answered not-found for a record past its deadline that was still
\* in the map: no sweep cycle and no DELETE request has run, the key is gone
\* by the lazy expiry
C3_Witness ==
    \E p \in Procs :
        /\ hpc[p] = "none" /\ h[p].done = "get" /\ ~h[p].found
        /\ last[h[p].k].kind = "Delete"
        /\ hpc[Sweeper] = "none" /\ h[Sweeper].done = "none"
        /\ \A q \in Procs : hpc[q] = "none" /\ h[q].done # "delete"
        /\ nops = 2
====
